---------------------------- MODULE Spec2Model ----------------------------
(***************************************************************************)
(* The content indexing pipeline of bwctl (src/src/bwctl/db/indexer.py):   *)
(* classification and name parsing as operators over character sequences,  *)
(* the catalog store as two tables of rows with the upserts of the SQL     *)
(* statements, and run_indexer as a state machine: clear, package           *)
(* discovery, package upserts, file enumeration, a bounded worker pool and  *)
(* the scheduler that collects the workers' outcomes; and get_pool of      *)
(* src/src/bwctl/db/connection.py, statement by statement.                 *)
(*                                                                          *)
(* Strings are sequences of one-character strings so that suffix, split,   *)
(* strip and the regular expressions are computed as Python computes them. *)
(* An optional value is None (the empty tuple) or Some(x) (a 1-tuple).     *)
(***************************************************************************)
EXTENDS Integers, Sequences, FiniteSets, TLC

(***************************************************************************)
(* Bounds of the model.                                                    *)
(***************************************************************************)
\* longest list of root paths handed to run_indexer
MaxRoots == 1
\* longest work list (files_to_index) of a run
MaxFiles == 3
\* largest worker pool
MaxWorkers == 2
\* runs of the indexer in one behaviour
MaxRuns == 2
\* calls of the store-level and classifier-level specifications
MaxCalls == 3
\* longest list of root paths of the discovery-level specification
MaxDiscoverRoots == 2

None == << >>
Some(x) == << x >>
IsSome(o) == o # << >>
Val(o) == o[1]

SetMin(S) == CHOOSE x \in S : \A y \in S : x <= y
SetMax(S) == CHOOSE x \in S : \A y \in S : x >= y

(***************************************************************************)
(* Python str operations.                                                  *)
(***************************************************************************)
UpperChars == << "A","B","C","D","E","F","G","H","I","J","K","L","M",
                 "N","O","P","Q","R","S","T","U","V","W","X","Y","Z" >>
LowerChars == << "a","b","c","d","e","f","g","h","i","j","k","l","m",
                 "n","o","p","q","r","s","t","u","v","w","x","y","z" >>
Digits == {"0","1","2","3","4","5","6","7","8","9"}

\* str.lower() on one character
LowerChar(c) ==
  IF \E i \in DOMAIN UpperChars : UpperChars[i] = c
  THEN LowerChars[CHOOSE i \in DOMAIN UpperChars : UpperChars[i] = c]
  ELSE c

\* str.lower()
lower(s) == [i \in 1..Len(s) |-> LowerChar(s[i])]

\* \w of the re module (ASCII part)
IsWordChar(c) ==
  \/ \E i \in DOMAIN UpperChars : UpperChars[i] = c \/ LowerChars[i] = c
  \/ c \in Digits
  \/ c = "_"

\* \s of the re module, and the characters str.strip() removes
IsSpace(c) == c \in {" ", "\t"}

\* pat occurs in s at position i
MatchAt(pat, s, i) ==
  /\ i >= 1
  /\ i + Len(pat) - 1 <= Len(s)
  /\ \A k \in 1..Len(pat) : s[i + k - 1] = pat[k]

\* pat in s
Contains(pat, s) == \E i \in 1..Len(s) : MatchAt(pat, s, i)

\* s.find(pat) + 1: the first position of pat in s, 0 when there is none
find(pat, s) ==
  IF Contains(pat, s)
  THEN SetMin({i \in 1..Len(s) : MatchAt(pat, s, i)})
  ELSE 0

\* s.endswith(suf)
EndsWith(s, suf) ==
  /\ Len(suf) <= Len(s)
  /\ SubSeq(s, Len(s) - Len(suf) + 1, Len(s)) = suf

\* s.strip()
strip(s) ==
  LET keep == {i \in 1..Len(s) : ~IsSpace(s[i])}
  IN  IF keep = {} THEN << >> ELSE SubSeq(s, SetMin(keep), SetMax(keep))

(***************************************************************************)
(* pathlib.  A path is the tuple Path.parts: the root "/" and the          *)
(* segments.                                                               *)
(***************************************************************************)
Slash == << "/" >>

\* Path.name
PathName(path) == path[Len(path)]

\* name.rfind(".") + 1
RFindDot(name) ==
  LET dots == {i \in 1..Len(name) : name[i] = "."}
  IN  IF dots = {} THEN 0 ELSE SetMax(dots)

\* Path.suffix: from the last dot, unless the dot leads or ends the name
suffix(path) ==
  LET name == PathName(path)
      j == RFindDot(name)
  IN  IF 1 < j /\ j < Len(name) THEN SubSeq(name, j, Len(name)) ELSE << >>

\* Path.stem
stem(path) ==
  LET name == PathName(path)
      j == RFindDot(name)
  IN  IF 1 < j /\ j < Len(name) THEN SubSeq(name, 1, j - 1) ELSE name

RECURSIVE JoinParts(_, _)
JoinParts(path, i) ==
  IF i > Len(path) THEN << >>
  ELSE (IF i > 2 THEN Slash ELSE << >>) \o path[i] \o JoinParts(path, i + 1)

\* str(path)
PathStr(path) == JoinParts(path, 1)

\* path / name
Child(path, name) == Append(path, name)

\* q lies below p (p is a proper prefix of q)
Below(p, q) == Len(q) > Len(p) /\ SubSeq(q, 1, Len(p)) = p

(***************************************************************************)
(* The tables of the classifier.                                           *)
(***************************************************************************)
EXTENSION_MAP ==
  << << <<".","b","w","p","r","e","s","e","t">>, "preset" >>,
     << <<".","b","w","c","l","i","p">>, "clip" >>,
     << <<".","w","a","v">>, "sample" >>,
     << <<".","a","i","f">>, "sample" >>,
     << <<".","a","i","f","f">>, "sample" >>,
     << <<".","f","l","a","c">>, "sample" >>,
     << <<".","o","g","g">>, "sample" >>,
     << <<".","m","p","3">>, "sample" >>,
     << <<".","m","u","l","t","i","s","a","m","p","l","e">>, "multisample" >>,
     << <<".","b","w","i","m","p","u","l","s","e">>, "impulse" >>,
     << <<".","b","w","c","u","r","v","e">>, "curve" >>,
     << <<".","b","w","w","a","v","e","t","a","b","l","e">>, "wavetable" >>,
     << <<".","b","w","t","e","m","p","l","a","t","e">>, "template" >>,
     << <<".","b","w","p","r","o","j","e","c","t">>, "project" >> >>

DEVICE_TYPE_PATTERNS ==
  << << << <<"p","o","l","y","m","e","r">>, <<"p","h","a","s","e","-","4">>,
           <<"f","m","-","4">>, <<"p","o","l","y","s","y","n","t","h">>,
           <<"s","a","m","p","l","e","r">>, <<"o","r","g","a","n">>,
           <<"p","i","a","n","o">>, <<"s","y","n","t","h">>,
           <<"i","n","s","t","r","u","m","e","n","t">> >>,
        "instrument" >>,
     << << <<"e","q">>, <<"f","i","l","t","e","r">>, <<"c","o","m","p">>,
           <<"r","e","v","e","r","b">>, <<"d","e","l","a","y">>,
           <<"c","h","o","r","u","s">>, <<"f","l","a","n","g","e","r">>,
           <<"p","h","a","s","e","r">>, <<"d","i","s","t","o","r","t">>,
           <<"a","m","p">>, <<"f","x">> >>,
        "audio_fx" >>,
     << << <<"a","r","p","e","g","g","i","a","t","o","r">>, <<"n","o","t","e">>,
           <<"c","h","o","r","d">>, <<"s","c","a","l","e">>,
           <<"t","r","a","n","s","p","o","s","e">>,
           <<"v","e","l","o","c","i","t","y">>, <<"m","i","d","i">> >>,
        "note_fx" >>,
     << << <<"l","f","o">>, <<"a","d","s","r">>,
           <<"e","n","v","e","l","o","p","e">>, <<"s","t","e","p","s">>,
           <<"c","u","r","v","e">>, <<"m","a","c","r","o">>,
           <<"m","o","d","u","l","a","t","o","r">> >>,
        "modulator" >>,
     << << <<"l","a","y","e","r">>, <<"c","h","a","i","n">>,
           <<"s","e","l","e","c","t","o","r">>,
           <<"c","o","n","t","a","i","n","e","r">>, <<"r","a","c","k">>,
           <<"s","p","l","i","t">> >>,
        "container" >>,
     << << <<"m","e","t","e","r">>, <<"t","o","o","l">>,
           <<"u","t","i","l","i","t","y">>,
           <<"a","u","d","i","o"," ","r","e","c","e","i","v","e","r">>,
           <<"n","o","t","e"," ","r","e","c","e","i","v","e","r">> >>,
        "utility" >> >>

tag_patterns ==
  << << <<"a","n","a","l","o","g">>, <<"d","i","g","i","t","a","l">>,
        <<"f","m">>, <<"w","a","v","e","t","a","b","l","e">>,
        <<"s","a","m","p","l","e">>, <<"g","r","a","n","u","l","a","r">> >>,
     << <<"w","a","r","m">>, <<"c","o","l","d">>, <<"d","a","r","k">>,
        <<"b","r","i","g","h","t">>, <<"s","o","f","t">>, <<"h","a","r","d">>,
        <<"a","g","g","r","e","s","s","i","v","e">> >>,
     << <<"a","m","b","i","e","n","t">>, <<"c","i","n","e","m","a","t","i","c">>,
        <<"v","i","n","t","a","g","e">>, <<"m","o","d","e","r","n">>,
        <<"c","l","a","s","s","i","c">> >>,
     << <<"b","a","s","s">>, <<"l","e","a","d">>, <<"p","a","d">>,
        <<"p","l","u","c","k">>, <<"k","e","y","s">>,
        <<"s","t","r","i","n","g","s">>, <<"b","r","a","s","s">>,
        <<"p","e","r","c">> >> >>

\* the extensions of the table, in its order
Extensions == [i \in DOMAIN EXTENSION_MAP |-> EXTENSION_MAP[i][1]]

\* EXTENSION_MAP.get(ext)
ExtensionLookup(ext) ==
  IF \E i \in DOMAIN EXTENSION_MAP : EXTENSION_MAP[i][1] = ext
  THEN Some(EXTENSION_MAP[CHOOSE i \in DOMAIN EXTENSION_MAP :
                            EXTENSION_MAP[i][1] = ext][2])
  ELSE None

\* get_content_type: the kind of the lower-cased suffix
get_content_type(path) == ExtensionLookup(lower(suffix(path)))

\* re.search of one (?i)(a|b|...) pattern
SearchAlternatives(alts, s) ==
  \E k \in DOMAIN alts : Contains(alts[k], lower(s))

\* a get_device_type that keeps looking after a match: the kind of the
\* last pattern found in the name
last_device_type(device_name) ==
  LET hits == {k \in DOMAIN DEVICE_TYPE_PATTERNS :
                 SearchAlternatives(DEVICE_TYPE_PATTERNS[k][1], device_name)}
  IN  IF hits = {} THEN None
      ELSE Some(DEVICE_TYPE_PATTERNS[SetMax(hits)][2])

\* get_device_type: the kind of the first pattern found in the name
get_device_type(device_name) ==
  LET hits == {i \in DOMAIN DEVICE_TYPE_PATTERNS :
                 SearchAlternatives(DEVICE_TYPE_PATTERNS[i][1], device_name)}
  IN  IF hits = {} THEN None
      ELSE Some(DEVICE_TYPE_PATTERNS[SetMin(hits)][2])


(***************************************************************************)
(* parse_preset_name.                                                      *)
(***************************************************************************)
Separator == << " ", "-", " " >>

\* position of the first "]" of s, 0 when there is none
FirstClose(s) ==
  LET closes == {i \in 1..Len(s) : s[i] = "]"}
  IN  IF closes = {} THEN 0 ELSE SetMin(closes)

\* re.match(r"\[([^\]]+)\]\s*(.+)", s): "[", one or more characters other
\* than "]", "]", and at least one more character
BracketMatches(s) ==
  /\ Len(s) >= 1
  /\ s[1] = "["
  /\ FirstClose(s) >= 3
  /\ FirstClose(s) < Len(s)

\* group(1) of the bracket match
BracketGroup1(s) == SubSeq(s, 2, FirstClose(s) - 1)

\* group(2): what follows "]" without its leading blanks; \s* gives the last
\* blank back when nothing else is left for (.+)
BracketGroup2(s) ==
  LET rest == SubSeq(s, FirstClose(s) + 1, Len(s))
      keep == {i \in 1..Len(rest) : ~IsSpace(rest[i])}
  IN  IF keep = {} THEN << rest[Len(rest)] >>
      ELSE SubSeq(rest, SetMin(keep), Len(rest))

\* \b(kw)\b matches s at position i, case-insensitively
WordMatchAt(kw, s, i) ==
  /\ MatchAt(kw, lower(s), i)
  /\ (i = 1 \/ ~IsWordChar(s[i - 1]))
  /\ (i + Len(kw) - 1 = Len(s) \/ ~IsWordChar(s[i + Len(kw)]))

\* [m.lower() for m in re.findall(pattern, s)], scanning from position i
RECURSIVE FindAll(_, _, _)
FindAll(alts, s, i) ==
  IF i > Len(s) THEN << >>
  ELSE LET m == {k \in DOMAIN alts : WordMatchAt(alts[k], s, i)}
       IN  IF m = {} THEN FindAll(alts, s, i + 1)
           ELSE << alts[SetMin(m)] >>
                  \o FindAll(alts, s, i + Len(alts[SetMin(m)]))

\* the tags of all keyword groups, in the order of tag_patterns
RECURSIVE ExtractTags(_, _)
ExtractTags(s, g) ==
  IF g > Len(tag_patterns) THEN << >>
  ELSE FindAll(tag_patterns[g], s, 1) \o ExtractTags(s, g + 1)

\* the separator rule: category and remaining name
SplitSeparator(name) ==
  IF Contains(Separator, name)
  THEN LET i == find(Separator, name)
       IN  [category |-> Some(strip(SubSeq(name, 1, i - 1))),
            name |-> strip(SubSeq(name, i + Len(Separator), Len(name)))]
  ELSE [category |-> None, name |-> name]

\* the bracket rule, applied to the result of the separator rule
ApplyBracket(r) ==
  IF BracketMatches(r.name)
  THEN [category |-> Some(BracketGroup1(r.name)), name |-> BracketGroup2(r.name)]
  ELSE r

parse_preset_name(name) ==
  LET r == ApplyBracket(SplitSeparator(name))
  IN  [category |-> r.category, tags |-> ExtractTags(r.name, 1)]

(***************************************************************************)
(* The disk.  Disk lists the directory entries in the order in which the   *)
(* operating system lists them.  A file's wav field is its parsed header    *)
(* (None when wave.open fails on it).                                       *)
(***************************************************************************)
Seg_installed == <<"i","n","s","t","a","l","l","e","d","-","p","a","c","k","a","g","e","s">>
Seg_Presets == <<"P","r","e","s","e","t","s">>
Seg_Polymer == <<"P","o","l","y","m","e","r">>
Seg_Bitwig == <<"B","i","t","w","i","g">>
Seg_Acme == <<"A","c","m","e">>
Seg_Drums == <<"D","r","u","m","s">>
Seg_Keys == <<"K","e","y","s">>
Seg_Version == <<"5",".","0">>
Seg_Library == <<"L","i","b","r","a","r","y">>
Seg_Application_Support ==
  <<"A","p","p","l","i","c","a","t","i","o","n"," ","S","u","p","p","o","r","t">>
Seg_Bitwig_Studio == <<"B","i","t","w","i","g"," ","S","t","u","d","i","o">>
Seg_Documents == <<"D","o","c","u","m","e","n","t","s">>

\* a user library
RootU == << Slash, <<"U">> >>
\* a Bitwig data directory, which holds installed-packages
RootK == << Slash, <<"K">> >>
\* the installed-packages directory itself, given as a root
RootD == Child(RootK, Seg_installed)
\* a root that does not exist
RootN == << Slash, <<"N">> >>
\* Path.home()
Home == << Slash, <<"H">> >>
\* the two directories of BitwigSettings.content_paths
DefaultInstalled ==
  Child(Child(Child(Child(Child(Home, Seg_Library), Seg_Application_Support),
                    Seg_Bitwig), Seg_Bitwig_Studio), Seg_installed)
DefaultLibrary ==
  Child(Child(Child(Home, Seg_Documents), Seg_Bitwig_Studio), Seg_Library)

Dir(path) ==
  [path |-> path, is_dir |-> TRUE, st_size |-> 0, st_mtime |-> 1, wav |-> None]
File(path, size, mtime, wav) ==
  [path |-> path, is_dir |-> FALSE, st_size |-> size, st_mtime |-> mtime,
   wav |-> wav]
Header(rate, channels, nframes) ==
  Some([framerate |-> rate, nchannels |-> channels, nframes |-> nframes])

PkgDrums == Child(Child(Child(RootD, Seg_Version), Seg_Bitwig), Seg_Drums)
PkgKeys == Child(Child(Child(RootD, Seg_Version), Seg_Acme), Seg_Keys)
FileDeepSub ==
  Child(Child(Child(RootU, Seg_Presets), Seg_Polymer),
        <<"D","e","e","p"," ","S","u","b",".","b","w","p","r","e","s","e","t">>)
FileKick == Child(RootU, <<"k","i","c","k",".","w","a","v">>)
FileLoud == Child(RootU, <<"L","o","u","d",".","W","A","V">>)
FileDotWav == Child(RootU, <<".","w","a","v">>)
FileNotes == Child(RootU, <<"n","o","t","e","s",".","t","x","t">>)
FileSnare == Child(PkgDrums, <<"s","n","a","r","e",".","w","a","v">>)
PkgHomeDrums ==
  Child(Child(Child(DefaultInstalled, Seg_Version), Seg_Bitwig), Seg_Drums)
FileTom == Child(PkgHomeDrums, <<"t","o","m",".","w","a","v">>)
FileHat == Child(DefaultLibrary, <<"h","a","t",".","w","a","v">>)

Disk ==
  << Dir(RootU),
     Dir(Child(RootU, Seg_Presets)),
     Dir(Child(Child(RootU, Seg_Presets), Seg_Polymer)),
     File(FileDeepSub, 10, 1, None),
     File(FileKick, 20, 1, Header(44100, 2, 22050)),
     File(FileLoud, 30, 1, Header(48000, 1, 24000)),
     File(FileDotWav, 40, 1, None),
     File(FileNotes, 50, 1, None),
     Dir(RootK),
     Dir(RootD),
     File(Child(RootD, <<"r","e","a","d","m","e">>), 60, 1, None),
     Dir(Child(RootD, Seg_Version)),
     Dir(Child(Child(RootD, Seg_Version), Seg_Bitwig)),
     Dir(PkgDrums),
     File(FileSnare, 70, 1, Header(44100, 1, 44100)),
     Dir(Child(Child(RootD, Seg_Version), Seg_Acme)),
     Dir(PkgKeys),
     File(Child(Child(RootD, Seg_Version), <<"l","i","c","e","n","s","e">>),
          80, 1, None),
     File(Child(Child(Child(RootD, Seg_Version), Seg_Bitwig),
                <<"a","b","o","u","t">>), 90, 1, None),
     Dir(Child(PkgKeys, <<"S","a","m","p","l","e","s">>)),
     Dir(Home),
     Dir(Child(Home, Seg_Library)),
     Dir(Child(Child(Home, Seg_Library), Seg_Application_Support)),
     Dir(Child(Child(Child(Home, Seg_Library), Seg_Application_Support),
               Seg_Bitwig)),
     Dir(Child(Child(Child(Child(Home, Seg_Library), Seg_Application_Support),
                     Seg_Bitwig), Seg_Bitwig_Studio)),
     Dir(DefaultInstalled),
     Dir(Child(DefaultInstalled, Seg_Version)),
     Dir(Child(Child(DefaultInstalled, Seg_Version), Seg_Bitwig)),
     Dir(PkgHomeDrums),
     File(FileTom, 15, 1, Header(44100, 1, 22050)),
     Dir(Child(Home, Seg_Documents)),
     Dir(Child(Child(Home, Seg_Documents), Seg_Bitwig_Studio)),
     Dir(DefaultLibrary),
     File(FileHat, 25, 1, Header(44100, 2, 44100)) >>

\* Path.exists()
exists(path) == \E i \in DOMAIN Disk : Disk[i].path = path

\* the entry of an existing path
Node(path) == Disk[CHOOSE i \in DOMAIN Disk : Disk[i].path = path]

\* Path.is_dir()
is_dir(path) == exists(path) /\ Node(path).is_dir

\* Path.iterdir(): the entries directly below path, in listing order
iterdir(path) ==
  SelectSeq(Disk, LAMBDA n : Len(n.path) = Len(path) + 1 /\ Below(path, n.path))

\* Path.rglob("*" + ext): every entry below path whose name ends with ext
\* (fnmatch on a PosixPath compares case-sensitively)
rglob(path, ext) ==
  SelectSeq(Disk, LAMBDA n : Below(path, n.path) /\ EndsWith(PathName(n.path), ext))

RECURSIVE Flatten(_)
Flatten(ss) == IF ss = << >> THEN << >> ELSE Head(ss) \o Flatten(Tail(ss))

\* Path(string): the parts of a normalised absolute path string
RECURSIVE SplitSlash(_)
SplitSlash(s) ==
  IF s = << >> THEN << >>
  ELSE LET i == find(Slash, s)
       IN  IF i = 0 THEN << s >>
           ELSE (IF i = 1 THEN << >> ELSE << SubSeq(s, 1, i - 1) >>)
                  \o SplitSlash(SubSeq(s, i + 1, Len(s)))
ParsePath(s) == << Slash >> \o SplitSlash(s)

(***************************************************************************)
(* Discovery.                                                              *)
(***************************************************************************)
\* the sub-directories of path, in listing order
SubDirs(path) == SelectSeq(iterdir(path), LAMBDA n : n.is_dir)

\* the descriptor discover_packages appends for one package directory
PackageDict(version_dir, vendor_dir, package_dir) ==
  [name |-> PathName(package_dir),
   vendor |-> PathName(vendor_dir),
   version |-> Some(PathName(version_dir)),
   path |-> PathStr(package_dir),
   is_factory |-> (PathName(vendor_dir) = Seg_Bitwig)]

\* the packages below one vendor directory
VendorPackages(version_dir, vendor_dir) ==
  LET pds == SubDirs(vendor_dir)
  IN  [k \in DOMAIN pds |-> PackageDict(version_dir, vendor_dir, pds[k].path)]

\* the packages below one version directory
VersionPackages(version_dir) ==
  LET vds == SubDirs(version_dir)
  IN  Flatten([j \in DOMAIN vds |-> VendorPackages(version_dir, vds[j].path)])

\* discover_packages: base/installed-packages/<version>/<vendor>/<package>
discover_packages(base_path) ==
  LET installed_packages == Child(base_path, Seg_installed)
      versions == SubDirs(installed_packages)
  IN  IF exists(installed_packages)
      THEN Flatten([i \in DOMAIN versions |-> VersionPackages(versions[i].path)])
      ELSE << >>

\* discover_content: rglob of every extension of the table, in table order
discover_content(package_path) ==
  LET found == Flatten([e \in DOMAIN Extensions |->
                          rglob(package_path, Extensions[e])])
  IN  [i \in DOMAIN found |-> found[i].path]

(***************************************************************************)
(* index_file.                                                             *)
(***************************************************************************)
\* get_wav_info: the audio properties of a parsable header, {} otherwise.
\* int(nframes / framerate * 1000) is the integer quotient for the headers
\* of this model, whose frame counts are whole multiples of half a second.
get_wav_info(node) ==
  IF IsSome(node.wav) /\ Val(node.wav).framerate > 0
  THEN LET h == Val(node.wav)
       IN  [sample_rate |-> Some(h.framerate),
            channels |-> Some(h.nchannels),
            duration_ms |-> Some((h.nframes * 1000) \div h.framerate)]
  ELSE [sample_rate |-> None, channels |-> None, duration_ms |-> None]

NoAudioProps == [sample_rate |-> None, channels |-> None, duration_ms |-> None]

\* an inference without "preset_idx + 1 < len(parts) - 1": the part after
\* "Presets", the file name included
NextPart(parts) ==
  LET at == {i \in DOMAIN parts : parts[i] = Seg_Presets}
  IN  IF at # {} /\ SetMin(at) + 1 <= Len(parts)
      THEN Some(parts[SetMin(at) + 1])
      ELSE None

\* position of the first "Presets" part, 0 when there is none
PresetIdx(parts) ==
  LET at == {i \in DOMAIN parts : parts[i] = Seg_Presets}
  IN  IF at = {} THEN 0 ELSE SetMin(at)

\* the part after the first "Presets" part, unless it is the file name
ParentDevice(parts) ==
  LET p == PresetIdx(parts)
  IN  IF p > 0 /\ p + 1 < Len(parts) THEN Some(parts[p + 1]) ELSE None

\* Python truth value of an optional string
Truthy(o) == IsSome(o) /\ Val(o) # << >>

\* the fallback with "if category is None" in place of "if not category"
CategoryIfNone(parsed_category, parent_device) ==
  IF parsed_category = None /\ Truthy(parent_device)
  THEN parent_device
  ELSE parsed_category

\* category = parsed category, or the parent device when that one is falsy
CategoryOf(parsed_category, parent_device) ==
  IF ~Truthy(parsed_category) /\ Truthy(parent_device)
  THEN parent_device
  ELSE parsed_category

\* an index_file that hands every sample to get_wav_info
ParsesEverySample(content_type, path) == content_type = "sample"

\* content_type == ContentType.SAMPLE and path.suffix.lower() == ".wav"
ParsesHeader(content_type, path) ==
  /\ content_type = "sample"
  /\ lower(suffix(path)) = <<".","w","a","v">>

\* index_file on a recognised file whose stat() succeeded
BuildContent(node, content_type, package_id) ==
  LET path == node.path
      name == stem(path)
      parsed == parse_preset_name(name)
      parent_device == ParentDevice(path)
      audio_props == IF ParsesHeader(content_type, path)
                     THEN get_wav_info(node)
                     ELSE NoAudioProps
  IN  [name |-> name,
       file_path |-> PathStr(path),
       content_type |-> content_type,
       package_id |-> package_id,
       parent_device |-> parent_device,
       description |-> None,
       category |-> CategoryOf(parsed.category, parent_device),
       subcategory |-> None,
       tags |-> parsed.tags,
       creator |-> None,
       device_type |-> IF Truthy(parent_device)
                       THEN get_device_type(Val(parent_device))
                       ELSE None,
       device_uuid |-> None,
       plugin_id |-> None,
       sample_rate |-> audio_props.sample_rate,
       channels |-> audio_props.channels,
       duration_ms |-> audio_props.duration_ms,
       bpm |-> None,
       key_signature |-> None,
       file_size |-> Some(node.st_size),
       file_hash |-> None,
       modified_at |-> Some(node.st_mtime)]

\* index_file: None for an unrecognised extension, a Content otherwise
index_file(node, package_id) ==
  LET content_type == get_content_type(node.path)
  IN  IF content_type = None THEN None
      ELSE Some(BuildContent(node, Val(content_type), package_id))

(***************************************************************************)
(* The catalog store: the packages and content tables as sets of rows, and *)
(* the three SQL statements.  Ids come from a sequence per table.           *)
(***************************************************************************)
\* the columns ON CONFLICT (path) DO UPDATE SET assigns
PackageUpdateColumns == {"name", "vendor", "version", "is_factory"}

\* a DO UPDATE SET that assigns every column of the INSERT but the key
EveryInsertedColumn ==
  {"name", "content_type", "package_id", "parent_device", "category", "tags",
   "device_type", "file_size", "modified_at", "description", "subcategory",
   "creator", "device_uuid", "plugin_id", "sample_rate", "channels",
   "duration_ms", "bpm", "key_signature", "file_hash"}

\* the columns ON CONFLICT (file_path) DO UPDATE SET assigns from EXCLUDED
ContentUpdateColumns ==
  {"name", "content_type", "package_id", "parent_device", "category", "tags",
   "device_type", "file_size", "modified_at"}

\* a save_package whose statement ends in ON CONFLICT (path) DO NOTHING
save_package_do_nothing(rows, seq, package) ==
  IF \E r \in rows : r.path = package.path
  THEN [rows |-> rows, seq |-> seq,
        id |-> (CHOOSE r \in rows : r.path = package.path).id]
  ELSE LET new == [k \in DOMAIN package \cup {"id"} |->
                     IF k = "id" THEN seq + 1 ELSE package[k]]
       IN  [rows |-> rows \cup {new}, seq |-> seq + 1, id |-> seq + 1]

\* save_package: INSERT ... ON CONFLICT (path) DO UPDATE ... RETURNING id
save_package(rows, seq, package) ==
  IF \E r \in rows : r.path = package.path
  THEN LET old == CHOOSE r \in rows : r.path = package.path
           new == [k \in DOMAIN old |->
                     IF k \in PackageUpdateColumns THEN package[k] ELSE old[k]]
       IN  [rows |-> (rows \ {old}) \cup {new}, seq |-> seq, id |-> old.id]
  ELSE LET new == [k \in DOMAIN package \cup {"id"} |->
                     IF k = "id" THEN seq + 1 ELSE package[k]]
       IN  [rows |-> rows \cup {new}, seq |-> seq + 1, id |-> seq + 1]

\* a save_content whose statement has no ON CONFLICT clause, on a table
\* without the unique key
save_content_insert(rows, seq, now, content) ==
  LET new == [k \in DOMAIN content \cup {"id", "indexed_at"} |->
                IF k = "id" THEN seq + 1
                ELSE IF k = "indexed_at" THEN now
                ELSE content[k]]
  IN  [rows |-> rows \cup {new}, seq |-> seq + 1, id |-> seq + 1]

\* save_content: INSERT ... ON CONFLICT (file_path) DO UPDATE ... RETURNING id
save_content(rows, seq, now, content) ==
  IF \E r \in rows : r.file_path = content.file_path
  THEN LET old == CHOOSE r \in rows : r.file_path = content.file_path
           new == [k \in DOMAIN old |->
                     IF k \in ContentUpdateColumns THEN content[k]
                     ELSE IF k = "indexed_at" THEN now
                     ELSE old[k]]
       IN  [rows |-> (rows \ {old}) \cup {new}, seq |-> seq, id |-> old.id]
  ELSE LET new == [k \in DOMAIN content \cup {"id", "indexed_at"} |->
                     IF k = "id" THEN seq + 1
                     ELSE IF k = "indexed_at" THEN now
                     ELSE content[k]]
       IN  [rows |-> rows \cup {new}, seq |-> seq + 1, id |-> seq + 1]

\* a clear_index without its DELETE FROM content
clear_packages_only(package_rows, content_rows) ==
  [packages |-> {}, content |-> content_rows,
   count |-> Cardinality(package_rows)]

\* clear_index: DELETE FROM content; DELETE FROM packages; one commit
clear_index(package_rows, content_rows) ==
  [packages |-> {}, content |-> {}, count |-> Cardinality(package_rows)]

(***************************************************************************)
(* run_indexer as a state machine.                                         *)
(*                                                                         *)
(* packages, content      the two tables of the catalog                    *)
(* pkg_seq, content_seq   the id sequences of the tables                   *)
(* run                    number of the current run; also the clock NOW()  *)
(* pc                     position of run_indexer                          *)
(* paths, full, workers   the arguments of the run                         *)
(* stats                  the statistics dictionary                        *)
(* all_packages           the discovered package descriptors               *)
(* package_ids            package path -> id returned by save_package      *)
(* pkg_i                  position of the "save packages" loop             *)
(* files_to_index         the work list of (path, package id) pairs        *)
(* futures                one future per work-list entry                   *)
(* written                ids of the rows the current run has written      *)
(* prev                   the content table the previous run returned with *)
(* call                   the last call of the store/classifier            *)
(*                        specifications, with its result                  *)
(* error                  the catalog operation whose exception left       *)
(*                        run_indexer, "none" when there was none          *)
(* progress               the task of the progress bar: its total and the  *)
(*                        number of advances; None before add_task         *)
(* connection             the module bwctl.db.connection: its global _pool,*)
(*                        the pools constructed and handed out so far, and *)
(*                        the threads inside get_pool                      *)
(***************************************************************************)
VARIABLES packages, content, pkg_seq, content_seq, run, pc, paths, full,
          workers, stats, all_packages, package_ids, pkg_i, files_to_index,
          futures, written, prev, call, error, progress, connection

storeVars == << packages, content, pkg_seq, content_seq >>
argVars == << run, paths, full, workers >>
discoveryVars == << all_packages, package_ids, pkg_i, files_to_index >>
vars == << packages, content, pkg_seq, content_seq, run, pc, paths, full,
           workers, stats, all_packages, package_ids, pkg_i, files_to_index,
           futures, written, prev, call, error, progress, connection >>

Roots == {PathStr(RootU), PathStr(RootK), PathStr(RootN)}

\* the lists of at most MaxRoots roots
RootLists == UNION {[1..n -> Roots] : n \in 0..MaxRoots}

\* a first loop with "break" where the code goes on to the next root: the
\* packages of the roots before the first one that does not exist
RECURSIVE AllPackagesUntilMissing(_)
AllPackagesUntilMissing(ps) ==
  IF ps = << >> \/ ~exists(ParsePath(Head(ps))) THEN << >>
  ELSE discover_packages(ParsePath(Head(ps)))
         \o AllPackagesUntilMissing(Tail(ps))

\* the first loop of run_indexer: the packages of every existing root
AllPackages(ps) ==
  Flatten([i \in DOMAIN ps |->
             IF exists(ParsePath(ps[i]))
             THEN discover_packages(ParsePath(ps[i]))
             ELSE << >>])

\* the (file, package id) pairs of one package
PackageFiles(pkg, ids) ==
  LET fs == discover_content(ParsePath(pkg.path))
  IN  [j \in DOMAIN fs |-> [path |-> fs[j], pkg_id |-> Some(ids[pkg.path])]]

\* the (file, None) pairs of one root of the "user library" loop
LibraryFiles(path_str) ==
  LET path == ParsePath(path_str)
      fs == discover_content(path)
  IN  IF exists(path) /\ ~Contains(Seg_installed, PathStr(path))
      THEN [j \in DOMAIN fs |-> [path |-> fs[j], pkg_id |-> None]]
      ELSE << >>

\* a work list that holds the package files only when the pool starts,
\* the libraries being enumerated while the workers run
WorkListOfPackages(ps, pkgs, ids) ==
  Flatten([i \in DOMAIN pkgs |-> PackageFiles(pkgs[i], ids)])

\* files_to_index: the files of the packages, then those of the libraries
WorkList(ps, pkgs, ids) ==
  Flatten([i \in DOMAIN pkgs |-> PackageFiles(pkgs[i], ids)])
    \o Flatten([i \in DOMAIN ps |-> LibraryFiles(ps[i])])

\* the length of the work list a list of roots leads to
WorkListLen(ps) ==
  LET pkgs == AllPackages(ps)
  IN  Len(WorkList(ps, pkgs, [q \in {pkgs[i].path : i \in DOMAIN pkgs} |-> 0]))

NoCall == [op |-> "none", n |-> 0, arg |-> None, ret |-> None, old |-> None]
NoStats == [packages |-> 0, files |-> 0, errors |-> 0]
NoWritten == [packages |-> {}, content |-> {}]

\* a thread outside get_pool
Outside == [pc |-> "out", local |-> None, n |-> 0]

\* "_pool: ConnectionPool | None = None", and no thread in get_pool
NoConnection ==
  [pool |-> None, made |-> 0, handed |-> {},
   threads |-> [t \in 1..MaxWorkers |-> Outside]]

\* a fresh process and an empty catalog
InitState ==
  /\ packages = {}
  /\ content = {}
  /\ pkg_seq = 0
  /\ content_seq = 0
  /\ run = 0
  /\ pc = "idle"
  /\ full = FALSE
  /\ workers = 1
  /\ stats = NoStats
  /\ all_packages = << >>
  /\ package_ids = << >>
  /\ pkg_i = 1
  /\ files_to_index = << >>
  /\ futures = << >>
  /\ written = NoWritten
  /\ prev = {}
  /\ call = NoCall
  /\ error = "none"
  /\ progress = None
  /\ connection = NoConnection

\* the roots are those of the configuration or of --path, the same for
\* every run of a behaviour
Init ==
  /\ InitState
  /\ paths \in {ps \in RootLists : WorkListLen(ps) <= MaxFiles}

\* a run_indexer that catches the exception of a catalog operation and
\* goes on with the step that follows
Swallowed(next) == next

\* run_indexer has no handler around clear_index and save_package: their
\* exception leaves it, whatever step would have followed
Unhandled(next) == "failed"

\* a run_indexer that ignores full
NeverClear(f) == "discover"

\* "if full: clear_index()": where a run goes first
FirstStep(f) == IF f THEN "clear" ELSE "discover"

\* "workers: int = 4" of run_indexer and of the --workers option
DefaultWorkers == 4

\* the pool size of a call: the argument, the default when there is none
WorkersOrDefault(arg) == IF arg = None THEN DefaultWorkers ELSE Val(arg)

\* the pool sizes a caller hands to run_indexer
WorkerArgs == {Some(n) : n \in 1..MaxWorkers}

\* a call of run_indexer(paths, full, workers) with one of the given
\* workers arguments: stats = {...}; if full: ...
StartRunWith(worker_args) ==
  /\ pc \in {"idle", "returned", "failed"}
  /\ run < MaxRuns
  /\ run' = run + 1
  /\ full' \in BOOLEAN
  /\ \E arg \in worker_args : workers' = WorkersOrDefault(arg)
  /\ pc' = FirstStep(full')
  /\ stats' = NoStats
  /\ all_packages' = << >>
  /\ package_ids' = << >>
  /\ pkg_i' = 1
  /\ files_to_index' = << >>
  /\ futures' = << >>
  /\ written' = NoWritten
  /\ prev' = IF pc = "returned" THEN content ELSE {}
  /\ error' = "none"
  /\ progress' = None
  /\ UNCHANGED << storeVars, paths, call, connection >>

\* a call by the index command, which always hands its --workers on
StartRun == StartRunWith(WorkerArgs)

\* if full: clear_index(); a database error leaves run_indexer
ClearIndex ==
  /\ pc = "clear"
  /\ \E ok \in BOOLEAN :
       IF ok
       THEN LET c == clear_index(packages, content)
            IN  /\ packages' = c.packages
                /\ content' = c.content
                /\ pc' = "discover"
                /\ error' = error
       ELSE /\ pc' = Unhandled("discover")
            /\ error' = "clear_index"
            /\ UNCHANGED << packages, content >>
  /\ UNCHANGED << pkg_seq, content_seq, argVars, stats, discoveryVars,
                  futures, written, prev, progress, call, connection >>

\* for path_str in paths: all_packages.extend(discover_packages(path))
DiscoverPackages ==
  /\ pc = "discover"
  /\ all_packages' = AllPackages(paths)
  /\ pc' = "save_packages"
  /\ UNCHANGED << storeVars, argVars, stats, package_ids, pkg_i,
                  files_to_index, futures, written, prev, progress, call,
                  error, connection >>

\* one turn of "for pkg in all_packages: pkg_id = save_package(pkg); ..."
SavePackage ==
  /\ pc = "save_packages"
  /\ pkg_i <= Len(all_packages)
  /\ \E ok \in BOOLEAN :
       IF ok
       THEN LET pkg == all_packages[pkg_i]
                r == save_package(packages, pkg_seq, pkg)
            IN  /\ packages' = r.rows
                /\ pkg_seq' = r.seq
                /\ package_ids' =
                     [q \in DOMAIN package_ids \cup {pkg.path} |->
                        IF q = pkg.path THEN r.id ELSE package_ids[q]]
                /\ stats' = [stats EXCEPT !.packages = @ + 1]
                /\ pkg_i' = pkg_i + 1
                /\ written' = [written EXCEPT !.packages = @ \cup {r.id}]
                /\ pc' = pc
                /\ error' = error
       ELSE /\ pc' = Unhandled("save_packages")
            /\ error' = "save_package"
            /\ UNCHANGED << packages, pkg_seq, package_ids, stats, pkg_i,
                            written >>
  /\ UNCHANGED << content, content_seq, argVars, all_packages,
                  files_to_index, futures, prev, progress, call, connection >>

\* progress.add_task("Indexing files...", total=len(files_to_index)); the
\* command always hands a Progress to run_indexer
add_task(total) == Some([total |-> total, completed |-> 0])

\* progress.advance(task_id)
advance(p) == Some([Val(p) EXCEPT !.completed = @ + 1])

\* an advance inside the branch that counts an indexed file
ReportIndexed(p, future) == IF future.value THEN advance(p) ELSE p

\* "if progress and task_id is not None: progress.advance(task_id)", the
\* last statement of the loop body, whatever the future returned
ReportProgress(p, future) == advance(p)

\* worker is the thread of the pool that runs the entry, 0 when none does
NewFuture == [st |-> "pending", value |-> FALSE, exception |-> FALSE,
              outcome |-> "none", worker |-> 0]

\* the two enumeration loops, and executor.submit of every entry
CollectFiles ==
  /\ pc = "save_packages"
  /\ pkg_i > Len(all_packages)
  /\ files_to_index' = WorkList(paths, all_packages, package_ids)
  /\ futures' = [i \in DOMAIN files_to_index' |-> NewFuture]
  /\ progress' = add_task(Len(files_to_index'))
  /\ pc' = "pool"
  /\ UNCHANGED << storeVars, argVars, stats, all_packages, package_ids,
                  pkg_i, written, prev, call, error, connection >>

Running == {i \in DOMAIN futures : futures[i].st = "running"}

\* a pool whose threads take an entry while they run another
AllThreads(fs, max_workers) == 1..max_workers

\* a pool of one thread, whatever max_workers
OneThread(fs, max_workers) ==
  {1} \ {fs[i].worker : i \in {j \in DOMAIN fs : fs[j].st = "running"}}

\* ThreadPoolExecutor(max_workers): the threads 1..max_workers, of which
\* those that run no entry wait on the queue
IdleThreads(fs, max_workers) ==
  (1..max_workers) \ {fs[i].worker : i \in {j \in DOMAIN fs : fs[j].st = "running"}}

\* an idle thread takes the oldest pending entry of the queue; the threads
\* are alike, and the idle thread of lowest number stands for whichever of
\* them wins the entry
StartTask(i) ==
  /\ pc = "pool"
  /\ futures[i].st = "pending"
  /\ \A j \in DOMAIN futures : j < i => futures[j].st # "pending"
  /\ IdleThreads(futures, workers) # {}
  /\ futures' = [futures EXCEPT
                   ![i].st = "running",
                   ![i].worker = SetMin(IdleThreads(futures, workers))]
  /\ UNCHANGED << storeVars, argVars, pc, stats, discoveryVars, written,
                  prev, progress, call, error, connection >>

\* what index_one hands to its future
TaskResult(rows, seq, id, outcome, value, exception) ==
  [rows |-> rows, seq |-> seq, id |-> id, outcome |-> outcome,
   value |-> value, exception |-> exception]

\* index_one without its except clause: the exception reaches the future
Propagated(rows, seq) == TaskResult(rows, seq, None, "raised", FALSE, TRUE)

\* an index_one that answers True although the upsert raised
CaughtAsIndexed(rows, seq) == TaskResult(rows, seq, None, "raised", TRUE, FALSE)

\* "except Exception: return False"
Caught(rows, seq) == TaskResult(rows, seq, None, "raised", FALSE, FALSE)

\* index_file returned None: the trailing "return False"
Skipped(rows, seq) == TaskResult(rows, seq, None, "skipped", FALSE, FALSE)

\* index_file of every entry of the disk, tabulated once: the disk does not
\* change, and index_file only copies package_id into the Content
DiskIndex == [i \in DOMAIN Disk |-> index_file(Disk[i], None)]

\* index_file(path, package_id) for a path of the disk, from the table
index_file_at(path, package_id) ==
  LET c == DiskIndex[CHOOSE i \in DOMAIN Disk : Disk[i].path = path]
  IN  IF c = None THEN None
      ELSE Some([Val(c) EXCEPT !.package_id = package_id])

\* index_one(args); raise names the call that raises: path.stat() in
\* index_file ("stat"), the upsert of save_content ("save"), or none.
\* index_file returns None before it calls stat() when the extension is
\* not recognised.
index_one(rows, seq, now, args, raise) ==
  LET c == index_file_at(args.path, args.pkg_id)
  IN  IF c = None THEN Skipped(rows, seq)
      ELSE IF raise # "none" THEN Caught(rows, seq)
      ELSE LET w == save_content(rows, seq, now, Val(c))
           IN  TaskResult(w.rows, w.seq, Some(w.id), "indexed", TRUE, FALSE)

\* a worker runs index_one on its entry to the end
FinishTask(i) ==
  /\ pc = "pool"
  /\ futures[i].st = "running"
  /\ \E raise \in {"none", "stat", "save"} :
       LET r == index_one(content, content_seq, run, files_to_index[i], raise)
       IN  /\ content' = r.rows
           /\ content_seq' = r.seq
           /\ futures' = [futures EXCEPT
                            ![i] = [st |-> "done", value |-> r.value,
                                    exception |-> r.exception,
                                    outcome |-> r.outcome, worker |-> 0]]
           /\ written' = IF IsSome(r.id)
                         THEN [written EXCEPT !.content = @ \cup {Val(r.id)}]
                         ELSE written
  /\ UNCHANGED << packages, pkg_seq, argVars, pc, stats, discoveryVars,
                  prev, progress, call, error, connection >>

\* a tally that starts from a stale read of the counters, as unguarded
\* updates by the workers would
StaleTally(st, value) ==
  IF value THEN [st EXCEPT !.files = 1] ELSE [st EXCEPT !.errors = 1]

\* if future.result(): stats["files"] += 1 else: stats["errors"] += 1
Tally(st, value) ==
  IF value THEN [st EXCEPT !.files = @ + 1] ELSE [st EXCEPT !.errors = @ + 1]

\* one turn of "for future in as_completed(futures)"
Collect(i) ==
  /\ pc = "pool"
  /\ futures[i].st = "done"
  /\ futures' = [futures EXCEPT ![i].st = "collected"]
  /\ IF futures[i].exception
     THEN pc' = "failed" /\ stats' = stats /\ progress' = progress
     ELSE /\ pc' = pc
          /\ stats' = Tally(stats, futures[i].value)
          /\ progress' = ReportProgress(progress, futures[i])
  /\ UNCHANGED << storeVars, argVars, discoveryVars, written, prev, call,
                  error, connection >>

\* return stats
Return ==
  /\ pc = "pool"
  /\ \A i \in DOMAIN futures : futures[i].st = "collected"
  /\ pc' = "returned"
  /\ UNCHANGED << storeVars, argVars, stats, discoveryVars, futures,
                  written, prev, progress, call, error, connection >>

Next ==
  \/ StartRun
  \/ ClearIndex
  \/ DiscoverPackages
  \/ SavePackage
  \/ CollectFiles
  \/ \E i \in DOMAIN futures : StartTask(i)
  \/ \E i \in DOMAIN futures : FinishTask(i)
  \/ \E i \in DOMAIN futures : Collect(i)
  \/ Return

Spec == Init /\ [][Next]_vars

(***************************************************************************)
(* One call of run_indexer in a fresh process, with a workers argument or  *)
(* with none.                                                              *)
(***************************************************************************)
StartOnce == pc = "idle" /\ StartRunWith(WorkerArgs \cup {None})

CallNext ==
  \/ StartOnce
  \/ ClearIndex
  \/ DiscoverPackages
  \/ SavePackage
  \/ CollectFiles
  \/ \E i \in DOMAIN futures : StartTask(i)
  \/ \E i \in DOMAIN futures : FinishTask(i)
  \/ \E i \in DOMAIN futures : Collect(i)
  \/ Return

SpecCall == Init /\ [][CallNext]_vars

\* the worker of entry i comes to the end of index_one
Finishes(i) == i \in DOMAIN futures /\ FinishTask(i)

\* the steps of the executor and of the loop over as_completed: an idle
\* thread takes a waiting entry, every finished future is handed over, and
\* run_indexer returns after the last one
Scheduler ==
  \/ \E i \in DOMAIN futures : StartTask(i)
  \/ \E i \in DOMAIN futures : Collect(i)
  \/ Return

\* a call over the user library, or over the data directory
LiveInit ==
  /\ InitState
  /\ paths \in {<< PathStr(RootU) >>, << PathStr(RootK) >>}

\* one call under a fair scheduler; index_one is left free to block for
\* ever, in the file system or in the database
SpecLive == LiveInit /\ [][CallNext]_vars /\ WF_vars(Scheduler)

(***************************************************************************)
(* get_pool, called through get_connection by the worker threads of a run  *)
(* whose main thread has not touched the catalog (no package found, no     *)
(* full reindex): the first calls come from the pool's threads.  A thread  *)
(* can be suspended between any two statements of get_pool, and the        *)
(* constructor of ConnectionPool starts threads of its own.  Each thread   *)
(* calls get_pool at most MaxCalls times, once for every save_content.     *)
(***************************************************************************)
Threads == 1..MaxWorkers

\* thread t with its position in get_pool and its local value changed
AtThread(t, pc_, local) ==
  [connection.threads EXCEPT ![t] = [@ EXCEPT !.pc = pc_, !.local = local]]

\* "if _pool is None:" of a new call of get_pool
TestPool(t) ==
  /\ connection.threads[t].pc = "out"
  /\ connection.threads[t].n < MaxCalls
  /\ connection' =
       [connection EXCEPT
          !.threads = [@ EXCEPT ![t] =
             [pc |-> IF connection.pool = None THEN "construct" ELSE "return",
              local |-> None,
              n |-> @.n + 1]]]

\* "ConnectionPool(settings.database.dsn, ...)": a new pool
ConstructPool(t) ==
  /\ connection.threads[t].pc = "construct"
  /\ connection' =
       [connection EXCEPT
          !.made = @ + 1,
          !.threads = AtThread(t, "store", Some(connection.made + 1))]

\* "_pool = ...": the global takes the pool this thread constructed
StorePool(t) ==
  /\ connection.threads[t].pc = "store"
  /\ connection' =
       [connection EXCEPT
          !.pool = connection.threads[t].local,
          !.threads = AtThread(t, "return", None)]

\* "return _pool": the caller is handed what the global holds now
ReturnPool(t) ==
  /\ connection.threads[t].pc = "return"
  /\ connection' =
       [connection EXCEPT
          !.handed = @ \cup {Val(connection.pool)},
          !.threads = AtThread(t, "out", None)]

PoolNext ==
  /\ \E t \in Threads :
       TestPool(t) \/ ConstructPool(t) \/ StorePool(t) \/ ReturnPool(t)
  /\ UNCHANGED << storeVars, argVars, pc, stats, discoveryVars, futures,
                  written, prev, call, error, progress >>

\* a fresh process whose run is over the user library, which has no package
PoolInit == InitState /\ paths = << PathStr(RootU) >>

SpecPool == PoolInit /\ [][PoolNext]_vars

\* the rows of a content table stored under a path
RowsOfIn(rows, path_str) == {r \in rows : r.file_path = path_str}

(***************************************************************************)
(* The store on its own: any sequence of at most MaxCalls calls of         *)
(* save_package, save_content and clear_index, from whatever callers.      *)
(* call records the last call: its argument, the id it returned (None when *)
(* it raised) and the row it found under the same path.  NOW() is the      *)
(* number of the call.                                                     *)
(***************************************************************************)
\* kick.wav as it is on the disk, and after it was rendered again
KickRendered == File(FileKick, 25, 2, Header(48000, 1, 96000))

StoreFiles ==
  << Disk[CHOOSE i \in DOMAIN Disk : Disk[i].path = FileKick],
     KickRendered,
     Disk[CHOOSE i \in DOMAIN Disk : Disk[i].path = FileSnare] >>

\* what index_file makes of them
StoreContents == [i \in DOMAIN StoreFiles |-> Val(index_file(StoreFiles[i], None))]

\* package descriptors as discover_packages builds them (is_factory is
\* vendor == "Bitwig"), for the trees that have had these two package
\* directories
PackageInputs ==
  {[path |-> p, name |-> n, vendor |-> v, version |-> ver,
    is_factory |-> (v = Seg_Bitwig)] :
     p \in {PathStr(PkgDrums), PathStr(PkgKeys)},
     n \in {Seg_Drums, Seg_Keys},
     v \in {Seg_Bitwig, Seg_Acme},
     ver \in {Some(Seg_Version), None}}

CallSavePackage ==
  /\ call.n < MaxCalls
  /\ \E pkg \in PackageInputs :
       LET r == save_package(packages, pkg_seq, pkg)
           found == {q \in packages : q.path = pkg.path}
       IN  /\ packages' = r.rows
           /\ pkg_seq' = r.seq
           /\ call' = [op |-> "save_package", n |-> call.n + 1,
                       arg |-> Some(pkg), ret |-> Some(r.id),
                       old |-> IF found = {} THEN None
                               ELSE Some(CHOOSE q \in found : TRUE)]
  /\ UNCHANGED << content, content_seq, argVars, pc, stats, discoveryVars,
                  futures, written, prev, progress, error, connection >>

\* the statement of save_content raises when ok is false: rollback, raise
CallSaveContent ==
  /\ call.n < MaxCalls
  /\ \E i \in DOMAIN StoreContents, ok \in BOOLEAN,
        pkg_id \in {None} \cup {Some(q.id) : q \in packages} :
       LET c == [StoreContents[i] EXCEPT !.package_id = pkg_id]
           r == save_content(content, content_seq, call.n + 1, c)
           found == RowsOfIn(content, c.file_path)
           old == IF found = {} THEN None ELSE Some(CHOOSE q \in found : TRUE)
       IN  IF ok
           THEN /\ content' = r.rows
                /\ content_seq' = r.seq
                /\ call' = [op |-> "save_content", n |-> call.n + 1,
                            arg |-> Some(c), ret |-> Some(r.id), old |-> old]
           ELSE /\ UNCHANGED << content, content_seq >>
                /\ call' = [op |-> "save_content", n |-> call.n + 1,
                            arg |-> Some(c), ret |-> None, old |-> old]
  /\ UNCHANGED << packages, pkg_seq, argVars, pc, stats, discoveryVars,
                  futures, written, prev, progress, error, connection >>

CallClearIndex ==
  /\ call.n < MaxCalls
  /\ LET c == clear_index(packages, content)
     IN  /\ packages' = c.packages
         /\ content' = c.content
         /\ call' = [op |-> "clear_index", n |-> call.n + 1, arg |-> None,
                     ret |-> Some(c.count), old |-> None]
  /\ UNCHANGED << pkg_seq, content_seq, argVars, pc, stats, discoveryVars,
                  futures, written, prev, progress, error, connection >>

StoreInit == InitState /\ paths = << >>

StoreNext ==
  \/ CallSavePackage
  \/ CallSaveContent
  \/ CallClearIndex

SpecStore == StoreInit /\ [][StoreNext]_vars

(***************************************************************************)
(* The classifier on its own: index_file on files of any name, directory   *)
(* and extension of a small alphabet.                                      *)
(***************************************************************************)
ClassifyStems ==
  << <<"D","e","e","p"," ","S","u","b">>,
     <<"[","B","a","s","s","]"," ","D","e","e","p"," ","S","u","b">>,
     <<"B","a","s","s"," ","-"," ","A","n","a","l","o","g">>,
     <<" ","-"," ","X">>,
     <<"B","a","s","s"," ","-"," ","[","L","e","a","d","]"," ","X">>,
     <<"[","B","a","s","s","]">>,
     <<"P","a","d"," ","-"," ","W","a","r","m"," ","D","a","r","k">>,
     <<"W","a","r","m"," ","w","a","r","m"," ","S","u","b","w","a","r","m">>,
     <<"k","i","c","k">> >>

ClassifySuffixes ==
  << <<".","b","w","p","r","e","s","e","t">>,
     <<".","W","A","V">>,
     <<".","t","x","t">> >>

ClassifyDirs ==
  << RootU,
     Child(RootU, Seg_Presets),
     Child(Child(RootU, Seg_Presets), Seg_Polymer),
     Child(Child(Child(RootU, Seg_Presets), <<"E","Q","+">>), Seg_Drums) >>

\* the files index_file is called on
ClassifyFiles ==
  Flatten([d \in DOMAIN ClassifyDirs |->
    Flatten([n \in DOMAIN ClassifyStems |->
      [e \in DOMAIN ClassifySuffixes |->
         File(Child(ClassifyDirs[d], ClassifyStems[n] \o ClassifySuffixes[e]),
              10, 1,
              IF e = 2 THEN Header(44100, 2, 22050) ELSE None)]])])

\* files that try the header parser and the parent-device inference
ExtraFiles ==
  << File(Child(Child(Child(Child(RootU, Seg_Presets), Seg_Polymer),
                      Seg_Presets),
                <<"D","e","e","p",".","b","w","p","r","e","s","e","t">>),
          10, 1, None),
     File(Child(RootU, <<"m","u","t","e",".","w","a","v">>), 10, 1, None),
     File(Child(RootU, <<"z","e","r","o",".","w","a","v">>), 10, 1,
          Header(0, 2, 100)),
     File(Child(RootU, <<"t","o","n","e",".","f","l","a","c">>), 10, 1,
          Header(44100, 2, 22050)),
     File(Child(RootU, <<"r","i","f","f",".","b","w","c","l","i","p">>), 10, 1,
          Header(44100, 2, 22050)) >>

IndexFileInputs == ClassifyFiles \o ExtraFiles

\* index_file of each of them, computed once
ClassifyResults ==
  [i \in DOMAIN IndexFileInputs |-> index_file(IndexFileInputs[i], None)]

CallIndexFile ==
  /\ call.n < MaxCalls
  /\ \E i \in DOMAIN IndexFileInputs :
       call' = [op |-> "index_file", n |-> call.n + 1,
                arg |-> Some(IndexFileInputs[i]), ret |-> ClassifyResults[i],
                old |-> None]
  /\ UNCHANGED << storeVars, argVars, pc, stats, discoveryVars, futures,
                  written, prev, progress, error, connection >>

\* the display names parse_preset_name is called on
ParseNames ==
  ClassifyStems \o
  << <<"P","a","d"," ","-"," ","W","a","r","m"," ","A","m","b","i","e","n","t",
       " ","D","a","r","k">>,
     <<"P","a","d","_","A","m","b","i","e","n","t","_","D","a","r","k">>,
     <<"[","B","a","s","s","]"," ","D","e","e","p"," ","-"," ","S","u","b">>,
     <<"F","M"," ","b","a","s","s",","," ","f","m","!">> >>

ParseResults == [i \in DOMAIN ParseNames |-> parse_preset_name(ParseNames[i])]

CallParsePresetName ==
  /\ call.n < MaxCalls
  /\ \E i \in DOMAIN ParseNames :
       call' = [op |-> "parse_preset_name", n |-> call.n + 1,
                arg |-> Some(ParseNames[i]), ret |-> Some(ParseResults[i]),
                old |-> None]
  /\ UNCHANGED << storeVars, argVars, pc, stats, discoveryVars, futures,
                  written, prev, progress, error, connection >>

\* the parent-device names get_device_type is called on
DeviceNames ==
  << Seg_Polymer,
     <<"S","a","m","p","l","e","r">>,
     <<"E","Q","+">>,
     <<"N","o","t","e"," ","F","X"," ","L","a","y","e","r">>,
     <<"L","F","O">>,
     <<"T","o","o","l">>,
     <<"S","p","l","i","t","t","e","r">>,
     Seg_Drums >>

DeviceResults == [i \in DOMAIN DeviceNames |-> get_device_type(DeviceNames[i])]

CallGetDeviceType ==
  /\ call.n < MaxCalls
  /\ \E i \in DOMAIN DeviceNames :
       call' = [op |-> "get_device_type", n |-> call.n + 1,
                arg |-> Some(DeviceNames[i]), ret |-> DeviceResults[i],
                old |-> None]
  /\ UNCHANGED << storeVars, argVars, pc, stats, discoveryVars, futures,
                  written, prev, progress, error, connection >>

ClassifyNext ==
  \/ CallIndexFile
  \/ CallParsePresetName
  \/ CallGetDeviceType

SpecClassify == StoreInit /\ [][ClassifyNext]_vars

(***************************************************************************)
(* The phases of run_indexer before the pool, for every list of at most    *)
(* MaxDiscoverRoots roots, a package directory given as a root included,   *)
(* and work lists of any length.                                           *)
(***************************************************************************)
DiscoverRoots == Roots \cup {PathStr(RootD), PathStr(PkgDrums)}

DiscoverRootLists ==
  UNION {[1..n -> DiscoverRoots] : n \in 0..MaxDiscoverRoots}

\* settings.bitwig.content_paths as BitwigSettings builds it
content_paths == << PathStr(DefaultInstalled), PathStr(DefaultLibrary) >>

\* "if paths is None: paths = settings.bitwig.content_paths"; the argument
\* is None or Some(list)
PathsOrDefault(arg) == IF arg = None THEN content_paths ELSE Val(arg)

\* the roots a run of this specification may be given
GivenRoots == DiscoverRoots \cup {content_paths[i] : i \in DOMAIN content_paths}

\* a run with a list of roots, or with none (the configured list)
DiscoverInit ==
  /\ InitState
  /\ \E arg \in {Some(rs) : rs \in DiscoverRootLists} \cup {None} :
       paths = PathsOrDefault(arg)

DiscoverNext ==
  \/ StartRun
  \/ ClearIndex
  \/ DiscoverPackages
  \/ SavePackage
  \/ CollectFiles

SpecDiscover == DiscoverInit /\ [][DiscoverNext]_vars

(***************************************************************************)
(* Properties of run_indexer.                                              *)
(***************************************************************************)
Returned == pc = "returned"

\* the work-list entries whose task ended in the given way
Outcomes(o) == {i \in DOMAIN futures : futures[i].outcome = o}

\* the stored rows of a path
RowsOf(path_str) == RowsOfIn(content, path_str)

\* C1: when a run returns, the files it counts as indexed, the files it
\* skipped and the files it counts as errored add up to the N enumerated
\* files.
StatisticsConservation ==
  Returned =>
    stats.files + Cardinality(Outcomes("skipped")) + stats.errors
      = Len(files_to_index)

\* C2: a second, non-full run over an unchanged tree leaves exactly one
\* record for every file both runs indexed, equal to the record of the
\* first run in every field but indexed_at, which is refreshed.
IndexingIdempotent ==
  (Returned /\ run >= 2 /\ ~full) =>
    \A r1 \in prev :
      (/\ r1.indexed_at = run - 1
       /\ \E i \in Outcomes("indexed") :
            PathStr(files_to_index[i].path) = r1.file_path)
      => /\ Cardinality(RowsOf(r1.file_path)) = 1
         /\ \A r2 \in RowsOf(r1.file_path) :
              /\ r2.indexed_at = run
              /\ \A k \in DOMAIN r1 \ {"indexed_at"} : r2[k] = r1[k]

\* the regular files below the roots of the user-library pass
LibraryRootFiles ==
  {i \in DOMAIN Disk :
     /\ ~Disk[i].is_dir
     /\ \E j \in DOMAIN paths :
          /\ ~Contains(Seg_installed, paths[j])
          /\ Below(ParsePath(paths[j]), Disk[i].path)}

\* C4: after a run in which no file failed, a file below an indexed root
\* has a record exactly when its lower-cased extension is in the table,
\* and the other files are not counted as errors.
ExtensionPartition ==
  (Returned /\ Outcomes("raised") = {}) =>
    /\ \A i \in LibraryRootFiles :
         (RowsOf(PathStr(Disk[i].path)) # {})
           <=> (\E e \in DOMAIN Extensions :
                  Extensions[e] = lower(suffix(Disk[i].path)))
    /\ stats.errors = 0

\* C5: an exception of one file's task is caught in the task: the future
\* holds False and no exception, the run does not fail, the statistics
\* count every collected file once (files for True, errors for False), and
\* every file whose task got through has its row of this run.
FailureIsolation ==
  /\ \A i \in Outcomes("raised") :
       /\ ~futures[i].exception
       /\ ~futures[i].value
       /\ pc # "failed"
  /\ pc \in {"pool", "returned"} =>
       LET collected == {i \in DOMAIN futures : futures[i].st = "collected"}
       IN  /\ stats.files = Cardinality(collected \cap Outcomes("indexed"))
           /\ stats.errors = Cardinality(collected \ Outcomes("indexed"))
           /\ \A i \in Outcomes("indexed") :
                \E r \in RowsOf(PathStr(files_to_index[i].path)) :
                  r.indexed_at = run

\* a returned run in which one file failed and another was indexed
FailureIsolationWitness ==
  /\ Returned
  /\ Outcomes("raised") # {}
  /\ Outcomes("indexed") # {}
  /\ stats.errors >= 1
  /\ stats.files >= 1

\* C6: when a full run returns, every package row and every content row
\* was written by this run; nothing older is left.
FullReindexClearsFirst ==
  (Returned /\ full) =>
    /\ \A r \in content : r.id \in written.content /\ r.indexed_at = run
    /\ \A p \in packages : p.id \in written.packages

\* a full run returned after an earlier run, and a record of the earlier
\* run that this run did not write again is gone
FullReindexWitness ==
  /\ Returned
  /\ full
  /\ run >= 2
  /\ content # {}
  /\ \E r \in prev : RowsOf(r.file_path) = {}

\* C7: a skipped file writes no record and is not counted as an error:
\* the errors statistic of a returned run counts the failed files only.
SkippedIsNotAnError ==
  Returned =>
    /\ \A i \in Outcomes("skipped") :
         RowsOf(PathStr(files_to_index[i].path)) = {}
    /\ stats.errors = Cardinality(Outcomes("raised"))

\* C8: in every state of runs that follow one another, every content row
\* that carries a package id references a stored package row, and so does
\* every work-list entry, from before the first content upsert is issued.
ReferentialIntegrity ==
  /\ \A r \in content :
       IsSome(r.package_id) => \E p \in packages : p.id = Val(r.package_id)
  /\ \A i \in DOMAIN files_to_index :
       IsSome(files_to_index[i].pkg_id) =>
         \E p \in packages : p.id = Val(files_to_index[i].pkg_id)

\* a content row with a package id, written in a run after a full clear
ReferentialIntegrityWitness ==
  /\ run >= 2
  /\ full
  /\ \E r \in content : IsSome(r.package_id) /\ r.indexed_at = run


(***************************************************************************)
(* Properties of the store.                                                *)
(***************************************************************************)
\* C3: a successful content upsert leaves exactly one record of its path,
\* and that record carries the values of this writer, the last one, in
\* every column.
LastWriterWins ==
  [][(call'.op = "save_content" /\ call'.n = call.n + 1 /\ IsSome(call'.ret))
       => LET c == Val(call'.arg)
              rows == RowsOfIn(content', c.file_path)
          IN  /\ Cardinality(rows) = 1
              /\ \A r \in rows : \A k \in DOMAIN c : r[k] = c[k]]_vars

\* C3, amended: no two records share a file path, and a successful content
\* upsert leaves one record of its path: it carries this writer's name,
\* content_type, package_id, parent_device, category, tags, device_type,
\* file_size and modified_at and the time of this upsert, and the id and
\* the other columns of the record the path had before, if it had one.
UpsertConverges ==
  [][/\ \A r1, r2 \in content' : r1.file_path = r2.file_path => r1 = r2
     /\ (call'.op = "save_content" /\ call'.n = call.n + 1
            /\ IsSome(call'.ret))
          => LET c == Val(call'.arg)
                 rows == RowsOfIn(content', c.file_path)
                 first == IF IsSome(call'.old) THEN Val(call'.old) ELSE c
             IN  /\ Cardinality(rows) = 1
                 /\ \A r \in rows :
                      /\ r.id = Val(call'.ret)
                      /\ r.indexed_at = call'.n
                      /\ \A k \in {"name", "content_type", "package_id",
                                    "parent_device", "category", "tags",
                                    "device_type", "file_size",
                                    "modified_at"} : r[k] = c[k]
                      /\ \A k \in {"description", "subcategory", "creator",
                                    "device_uuid", "plugin_id", "sample_rate",
                                    "channels", "duration_ms", "bpm",
                                    "key_signature", "file_hash"} :
                           r[k] = first[k]
                      /\ IsSome(call'.old) => r.id = Val(call'.old).id
                 /\ RowsOfIn(content, c.file_path) # {}
                      => Cardinality(content') = Cardinality(content)]_vars

\* an upsert that found a record of its path written with another package
\* id and another sample rate
UpsertHitsRecord ==
  /\ call.op = "save_content"
  /\ IsSome(call.ret)
  /\ IsSome(call.old)
  /\ Val(call.old).package_id # Val(call.arg).package_id
  /\ Val(call.old).sample_rate # Val(call.arg).sample_rate
  /\ Cardinality(content) = 1

\* C9: a call of save_package leaves exactly one row of its path, with the
\* name, vendor, version and is_factory of this call, returns the id of
\* that row, which is the id the row had before if it existed, and leaves
\* the rows of other paths alone.
SavePackageIdempotent ==
  [][(call'.op = "save_package" /\ call'.n = call.n + 1)
       => LET pkg == Val(call'.arg)
              id == Val(call'.ret)
          IN  /\ Cardinality({q \in packages' : q.path = pkg.path}) = 1
              /\ \A q \in packages' :
                   q.path = pkg.path =>
                     /\ q.id = id
                     /\ q.name = pkg.name
                     /\ q.vendor = pkg.vendor
                     /\ q.version = pkg.version
                     /\ q.is_factory = pkg.is_factory
              /\ \A q \in packages : q.path = pkg.path => q.id = id
              /\ {q \in packages' : q.path # pkg.path}
                   = {q \in packages : q.path # pkg.path}]_vars

\* a third call for a path whose row the two calls before it wrote, with
\* another vendor than the row had
SavePackageAgain ==
  /\ call.op = "save_package"
  /\ call.n = 3
  /\ IsSome(call.old)
  /\ Val(call.old).vendor # Val(call.arg).vendor
  /\ Val(call.old).id = Val(call.ret)
  /\ Cardinality(packages) = 1

(***************************************************************************)
(* Properties of index_file.                                               *)
(***************************************************************************)
\* the category parse_preset_name finds in the display name of a file
ParsedCategory(node) == parse_preset_name(stem(node.path)).category

\* C10: the stored category is the category parsed from the display name
\* when one was parsed, else the parent device when one was inferred, else
\* absent.
CategoryFallback ==
  (call.op = "index_file" /\ IsSome(call.ret)) =>
    LET parsed == ParsedCategory(Val(call.arg))
        parent == Val(call.ret).parent_device
    IN  Val(call.ret).category =
          IF IsSome(parsed) THEN parsed
          ELSE IF IsSome(parent) THEN parent
          ELSE None

\* C10, amended: the stored category is the parsed category when one was
\* parsed and it is not empty, else the parent device when one was
\* inferred, else what was parsed: nothing, or the empty text.
CategoryFallbackNonEmpty ==
  (call.op = "index_file" /\ IsSome(call.ret)) =>
    LET parsed == ParsedCategory(Val(call.arg))
        parent == Val(call.ret).parent_device
    IN  Val(call.ret).category =
          IF IsSome(parsed) /\ Val(parsed) # << >> THEN parsed
          ELSE IF IsSome(parent) THEN parent
          ELSE parsed

\* a file " - X" below Presets/Polymer: the parsed category is empty and
\* the stored one is the parent device
EmptyCategoryFallsBack ==
  /\ call.op = "index_file"
  /\ IsSome(call.ret)
  /\ stem(Val(call.arg).path) = <<" ","-"," ","X">>
  /\ ParsedCategory(Val(call.arg)) = Some(<< >>)
  /\ Val(call.ret).parent_device = Some(Seg_Polymer)
  /\ Val(call.ret).category = Some(Seg_Polymer)


(***************************************************************************)
(* Properties of the phases of run_indexer.                                *)
(***************************************************************************)
\* C11: when clear_index or save_package raises before the pool exists,
\* run_indexer is left by the exception: it does not return statistics,
\* no file was enumerated or handed to a worker, and the run wrote no
\* content row.  A run fails in no other way.
RunFatalFailure ==
  /\ error # "none" =>
       /\ pc = "failed"
       /\ files_to_index = << >>
       /\ futures = << >>
       /\ written.content = {}
       /\ stats.files = 0
       /\ stats.errors = 0
       /\ \A r \in content : r.indexed_at # run
  /\ pc = "failed" => error # "none"

\* the second package upsert of a run raised after the first had committed
SecondPackageFails ==
  /\ error = "save_package"
  /\ pc = "failed"
  /\ stats.packages = 1
  /\ written.packages # {}



\* C12: every content row carries the content hash of its file.
RecordsCarryHash ==
  \A r \in content : IsSome(r.file_hash)



(***************************************************************************)
(* Properties of the classifier.                                           *)
(***************************************************************************)
\* the keywords of the four groups
Keywords ==
  UNION {{tag_patterns[g][k] : k \in DOMAIN tag_patterns[g]} :
           g \in DOMAIN tag_patterns}

\* C13: the tags of a display name are exactly the keywords that occur as
\* whole words in the name left after category stripping, each of them
\* once; "Pad - Warm Ambient Dark" has category Pad and the tags warm,
\* ambient and dark.
TagsAreKeywordSet ==
  call.op = "parse_preset_name" =>
    LET name == Val(call.arg)
        rest == ApplyBracket(SplitSeparator(name)).name
        t == Val(call.ret).tags
    IN  /\ {t[i] : i \in DOMAIN t}
             = {kw \in Keywords :
                  \E i \in 1..Len(rest) : WordMatchAt(kw, rest, i)}
        /\ \A i, j \in DOMAIN t : t[i] = t[j] => i = j
        /\ name = <<"P","a","d"," ","-"," ","W","a","r","m"," ","A","m","b",
                    "i","e","n","t"," ","D","a","r","k">>
             => /\ Val(call.ret).category = Some(<<"P","a","d">>)
                /\ {<<"w","a","r","m">>, <<"a","m","b","i","e","n","t">>,
                    <<"d","a","r","k">>} \subseteq {t[i] : i \in DOMAIN t}

\* C16: a name with " - " has the text left of the first separator as its
\* category, whatever its remainder looks like; only a name without
\* separator gets its category from a bracket prefix.
SeparatorElseBracket ==
  call.op = "parse_preset_name" =>
    LET name == Val(call.arg)
    IN  Val(call.ret).category =
          IF Contains(<<" ","-"," ">>, name)
          THEN Some(strip(SubSeq(name, 1, find(<<" ","-"," ">>, name) - 1)))
          ELSE IF BracketMatches(name) THEN Some(BracketGroup1(name))
          ELSE None

\* the rules of DEVICE_TYPE_PATTERNS a device name matches
RuleHits(device_name) ==
  {k \in DOMAIN DEVICE_TYPE_PATTERNS :
     \E a \in DOMAIN DEVICE_TYPE_PATTERNS[k][1] :
       Contains(DEVICE_TYPE_PATTERNS[k][1][a], lower(device_name))}

\* C17: get_device_type returns the kind of the first rule, in the order
\* instrument, audio_fx, note_fx, modulator, container, utility, whose
\* pattern occurs in the name, and nothing when no rule matches.
FirstMatchWins ==
  call.op = "get_device_type" =>
    LET order == <<"instrument", "audio_fx", "note_fx", "modulator",
                   "container", "utility">>
        hits == RuleHits(Val(call.arg))
    IN  /\ \A k \in DOMAIN DEVICE_TYPE_PATTERNS :
             DEVICE_TYPE_PATTERNS[k][2] = order[k]
        /\ call.ret = IF hits = {} THEN None ELSE Some(order[SetMin(hits)])

\* "Sampler" matches the instrument rule (sampler) and the audio_fx rule
\* (amp), and is an instrument
TwoRulesMatch ==
  /\ call.op = "get_device_type"
  /\ Cardinality(RuleHits(Val(call.arg))) >= 2
  /\ call.ret = Some("instrument")

\* the parts of a path that equal the marker
Markers(parts) ==
  {i \in DOMAIN parts : parts[i] = <<"P","r","e","s","e","t","s">>}

\* C18: a path with a part "Presets" has the part after it as its parent
\* device; a path without has none.
ParentIsNextSegment ==
  (call.op = "index_file" /\ IsSome(call.ret)) =>
    LET parts == Val(call.arg).path
    IN  Val(call.ret).parent_device =
          IF Markers(parts) = {} THEN None
          ELSE Some(parts[SetMin(Markers(parts)) + 1])

\* C18, amended: the parent device is the part after the first "Presets"
\* part when that part is a directory of the path; a file that lies
\* directly in the "Presets" directory, or has no such directory above it,
\* has none.
ParentIsNextDirectory ==
  (call.op = "index_file" /\ IsSome(call.ret)) =>
    LET parts == Val(call.arg).path
    IN  Val(call.ret).parent_device =
          IF Markers(parts) # {} /\ SetMin(Markers(parts)) + 1 < Len(parts)
          THEN Some(parts[SetMin(Markers(parts)) + 1])
          ELSE None

\* a file directly in a "Presets" directory, indexed without parent device
FileInPresets ==
  /\ call.op = "index_file"
  /\ IsSome(call.ret)
  /\ Markers(Val(call.arg).path) = {Len(Val(call.arg).path) - 1}
  /\ Val(call.ret).parent_device = None

\* C19: only a sample with the extension .wav gets audio properties, those
\* of its header; when the header does not parse the file is indexed all
\* the same, without audio properties; every file with a recognised
\* extension is indexed.
HeaderParsing ==
  call.op = "index_file" =>
    LET node == Val(call.arg)
        ext == lower(suffix(node.path))
        wav == ext = <<".","w","a","v">>
        parses == IsSome(node.wav) /\ Val(node.wav).framerate > 0
    IN  /\ (\E e \in DOMAIN EXTENSION_MAP : EXTENSION_MAP[e][1] = ext)
             => IsSome(call.ret)
        /\ IsSome(call.ret) =>
             LET c == Val(call.ret)
             IN  IF c.content_type = "sample" /\ wav /\ parses
                 THEN /\ c.sample_rate = Some(Val(node.wav).framerate)
                      /\ c.channels = Some(Val(node.wav).nchannels)
                      /\ c.duration_ms =
                           Some((Val(node.wav).nframes * 1000)
                                  \div Val(node.wav).framerate)
                 ELSE /\ c.sample_rate = None
                      /\ c.channels = None
                      /\ c.duration_ms = None

\* a .wav file whose header does not parse, indexed as a sample without
\* audio properties
UndecodableWavIndexed ==
  /\ call.op = "index_file"
  /\ IsSome(call.ret)
  /\ lower(suffix(Val(call.arg).path)) = <<".","w","a","v">>
  /\ Val(call.arg).wav = None
  /\ Val(call.ret).content_type = "sample"
  /\ Val(call.ret).sample_rate = None




\* the work-list entries a worker has taken
Started(fs) == {i \in DOMAIN fs : fs[i].st # "pending"}

\* what the disk holds for each root, computed once: its packages, its
\* library files, and the content files of each of its packages
PackagesAt ==
  [r \in GivenRoots |->
     IF exists(ParsePath(r)) THEN discover_packages(ParsePath(r)) ELSE << >>]
LibraryAt == [r \in GivenRoots |-> LibraryFiles(r)]
ContentAt ==
  [q \in UNION {{PackagesAt[r][k].path : k \in DOMAIN PackagesAt[r]} :
                  r \in GivenRoots} |->
     discover_content(ParsePath(q))]

\* C20: when the first worker takes a file, every root has been searched
\* for packages, every package has its row and its id, and the work list
\* holds every file of every package and library; from then on the run
\* changes neither the packages nor the work list.
PhaseOrdering ==
  [][/\ (Started(futures) = {} /\ Started(futures') # {}) =>
          /\ all_packages' = Flatten([j \in DOMAIN paths' |-> PackagesAt[paths'[j]]])
          /\ stats'.packages = Len(all_packages')
          /\ \A k \in DOMAIN all_packages' :
               \E q \in packages' :
                 /\ q.path = all_packages'[k].path
                 /\ q.id = package_ids'[q.path]
          /\ files_to_index' =
               Flatten([k \in DOMAIN all_packages' |->
                          LET q == all_packages'[k].path
                          IN  [f \in DOMAIN ContentAt[q] |->
                                 [path |-> ContentAt[q][f],
                                  pkg_id |-> Some(package_ids'[q])]]])
                 \o Flatten([j \in DOMAIN paths' |-> LibraryAt[paths'[j]]])
          /\ DOMAIN futures' = DOMAIN files_to_index'
     /\ (pc = "pool" /\ run' = run) =>
          /\ packages' = packages
          /\ pkg_seq' = pkg_seq
          /\ all_packages' = all_packages
          /\ package_ids' = package_ids
          /\ files_to_index' = files_to_index
          /\ stats'.packages = stats.packages]_vars

\* a worker is at work on a file of a package
WorkerOnPackageFile ==
  /\ pc = "pool"
  /\ all_packages # << >>
  /\ \E i \in DOMAIN futures :
       /\ futures[i].st = "running"
       /\ IsSome(files_to_index[i].pkg_id)

(***************************************************************************)
(* Properties of discovery and enumeration.                                *)
(***************************************************************************)
\* the roots of the run that exist
PresentRoots == SelectSeq(paths, LAMBDA p : exists(ParsePath(p)))

\* C14: roots that do not exist raise nothing and add nothing: the
\* packages and the work list of a run are those of the list of its
\* existing roots.
MissingRootsSkipped ==
  pc = "pool" =>
    /\ error = "none"
    /\ all_packages = AllPackages(PresentRoots)
    /\ files_to_index = WorkList(PresentRoots, all_packages, package_ids)
    /\ \A i \in DOMAIN files_to_index, j \in DOMAIN paths :
         Below(ParsePath(paths[j]), files_to_index[i].path)
           => exists(ParsePath(paths[j]))

\* a run over a root that does not exist followed by one that does, with
\* the packages and files of the second
MissingRootBeforeOthers ==
  /\ pc = "pool"
  /\ Len(paths) = 2
  /\ ~exists(ParsePath(paths[1]))
  /\ exists(ParsePath(paths[2]))
  /\ all_packages # << >>
  /\ files_to_index # << >>

\* a root of the installed-packages convention: it holds the directory
\* installed-packages, or is one
MatchesConvention(root) ==
  \/ exists(Child(root, Seg_installed))
  \/ PathName(root) = Seg_installed

\* C15: every recognised file below an existing root outside the
\* installed-packages convention is in the work list without package id.
LibraryRootsEnumerated ==
  pc = "pool" =>
    \A j \in DOMAIN paths :
      LET root == ParsePath(paths[j])
          files == discover_content(root)
      IN  (exists(root) /\ ~MatchesConvention(root)) =>
            \A f \in DOMAIN files :
              \E i \in DOMAIN files_to_index :
                /\ files_to_index[i].path = files[f]
                /\ files_to_index[i].pkg_id = None

\* the installed-package root a root stands for: the root itself when it
\* is an installed-packages directory, the one it holds otherwise
InstalledRootOf(root) ==
  IF PathName(root) = Seg_installed THEN root ELSE Child(root, Seg_installed)

\* the directories at installed-package root / version / vendor / package,
\* with the descriptor each of them stands for
PackageDirsAt ==
  [r \in GivenRoots |->
     LET ir == InstalledRootOf(ParsePath(r))
     IN  {[name |-> PathName(n.path),
           vendor |-> n.path[Len(n.path) - 1],
           version |-> Some(n.path[Len(n.path) - 2]),
           path |-> PathStr(n.path),
           is_factory |-> (n.path[Len(n.path) - 1] = Seg_Bitwig)] :
            n \in {Disk[i] : i \in {k \in DOMAIN Disk :
                      /\ Disk[k].is_dir
                      /\ Len(Disk[k].path) = Len(ir) + 3
                      /\ Below(ir, Disk[k].path)}}}]

\* C21: the descriptors discovered for each existing root are, one each,
\* those of the directories at installed-package root / version / vendor /
\* package of that root, the configured default roots included; files at
\* these levels and whatever lies below a package give no descriptor.
PackageDiscovery ==
  pc = "save_packages" =>
    /\ all_packages = Flatten([j \in DOMAIN paths |-> PackagesAt[paths[j]]])
    /\ \A j \in DOMAIN paths :
         exists(ParsePath(paths[j])) =>
           LET found == PackagesAt[paths[j]]
           IN  /\ {found[k] : k \in DOMAIN found} = PackageDirsAt[paths[j]]
               /\ Len(found) = Cardinality(PackageDirsAt[paths[j]])

(***************************************************************************)
(* Properties of the pool and the scheduler.                               *)
(***************************************************************************)
\* the futures the scheduler has taken from as_completed
Collected == {i \in DOMAIN futures : futures[i].st = "collected"}

\* C22: the progress total is the number of enumerated files from before
\* the first worker starts; the bar has advanced once for each file whose
\* outcome the scheduler has collected, whatever the outcome; when the run
\* returns the advances equal the total.
ProgressPerFile ==
  /\ pc \in {"pool", "returned"} =>
       /\ IsSome(progress)
       /\ Val(progress).total = Len(files_to_index)
       /\ Val(progress).completed = Cardinality(Collected)
  /\ pc \in {"clear", "discover", "save_packages"} => progress = None
  /\ Returned => Val(progress).completed = Val(progress).total

\* a run has returned after an indexed, a skipped and an errored file
AllOutcomesReported ==
  /\ Returned
  /\ Outcomes("indexed") # {}
  /\ Outcomes("skipped") # {}
  /\ Outcomes("raised") # {}
  /\ Val(progress).completed = 3

\* C23: never more entries are being processed than the pool has
\* threads; every entry being processed is on a thread of the pool and no
\* thread is on two entries; a call without workers argument has a pool
\* of 4.
BoundedPool ==
  /\ Cardinality(Running) <= workers
  /\ \A i \in Running : futures[i].worker \in 1..workers
  /\ \A i, j \in Running : futures[i].worker = futures[j].worker => i = j
  /\ \A i \in DOMAIN futures \ Running : futures[i].worker = 0
  /\ WorkersOrDefault(None) = 4
  /\ workers \in 1..MaxWorkers \cup {4}

\* every thread of the pool is at work while an entry waits in the queue
PoolIsFull ==
  /\ pc = "pool"
  /\ Cardinality(Running) = workers
  /\ \E i \in DOMAIN futures : futures[i].st = "pending"

\* the entries whose outcome is in their future
Finished == {i \in DOMAIN futures : futures[i].st \in {"done", "collected"}}

\* C24: if index_one comes to an end on every entry, a run that has
\* reached the pool returns, with every future collected; if it comes to
\* an end on every entry but h, a pool of more than one thread still
\* brings every other entry to its outcome; and the run has not returned
\* while an entry is at work.
Completion ==
  /\ (\A i \in 1..MaxFiles : WF_vars(Finishes(i)))
        => ((pc = "pool") ~> (Returned /\ Collected = DOMAIN futures))
  /\ \A h \in 1..MaxFiles :
       (\A i \in (1..MaxFiles) \ {h} : WF_vars(Finishes(i)))
         => ((pc = "pool" /\ workers > 1)
               ~> (DOMAIN futures \ {h} \subseteq Finished))
  /\ [](Returned => Running = {})

\* the pool has brought every entry but one to its outcome, and that one
\* is still at work
OneEntryStillAtWork ==
  /\ pc = "pool"
  /\ Len(futures) = 3
  /\ Cardinality(Running) = 1
  /\ Cardinality(Finished) = 2

\* the entries whose index_one returned True, and the others
ReturnedTrue == {i \in DOMAIN futures : futures[i].st = "collected" /\ futures[i].value}
ReturnedFalse == {i \in DOMAIN futures : futures[i].st = "collected" /\ ~futures[i].value}

\* C25: the counts are those of the outcomes collected so far, in whatever
\* order the entries were finished and collected, and at the return those
\* of all entries; the counters change only in the step in which the
\* scheduler collects a future (or are reset by the next call), never in a
\* step of a worker.
OrderIndependence ==
  /\ [](pc \in {"pool", "returned"} =>
          /\ stats.files = Cardinality(ReturnedTrue)
          /\ stats.errors = Cardinality(ReturnedFalse))
  /\ [](Returned => ReturnedTrue \cup ReturnedFalse = DOMAIN futures)
  /\ [][(pc = "pool" /\ (stats'.files # stats.files \/ stats'.errors # stats.errors))
          => /\ Cardinality(Collected') = Cardinality(Collected) + 1
             /\ Finished' = Finished
             /\ Running' = Running
             /\ content' = content]_vars

\* a later entry has been collected while the first is still at work
CollectedOutOfOrder ==
  /\ pc = "pool"
  /\ Len(futures) >= 2
  /\ futures[1].st = "running"
  /\ \E i \in DOMAIN futures : i > 1 /\ futures[i].st = "collected"
  /\ stats.files + stats.errors >= 1

\* C26: the work list handed to the pool holds no file path twice,
\* whatever the roots: a root that holds installed-packages and a root
\* given twice included.
NoDuplicateSubmission ==
  pc = "pool" =>
    \A i, j \in DOMAIN files_to_index :
      files_to_index[i].path = files_to_index[j].path => i = j

\* C27: when the run has returned, the record of every file enumerated
\* under a discovered package carries the id of that package, whatever
\* the order in which the workers wrote.
PackageIdOfPackageFiles ==
  Returned =>
    \A i \in DOMAIN files_to_index :
      IsSome(files_to_index[i].pkg_id) =>
        \A r \in RowsOf(PathStr(files_to_index[i].path)) :
          r.package_id = files_to_index[i].pkg_id

(***************************************************************************)
(* Properties of the connection pool.                                      *)
(***************************************************************************)
\* C28: at most one connection pool is ever constructed, and every caller
\* of get_pool is handed the same one, however the first calls of the
\* worker threads interleave.
SinglePool ==
  /\ connection.made <= 1
  /\ Cardinality(connection.handed) <= 1

(***************************************************************************)
(* Properties of save_content.                                             *)
(***************************************************************************)
\* C29: a content upsert that finds a record of its file path overwrites
\* name, content_type, package_id, parent_device, category, tags,
\* device_type, file_size, modified_at and indexed_at of that record and
\* nothing else: its other columns, the other records, the packages and
\* the id sequence are as before.
UpsertFrame ==
  [][(call'.op = "save_content" /\ call'.n = call.n + 1
        /\ IsSome(call'.ret) /\ IsSome(call'.old))
       => LET c == Val(call'.arg)
              old == Val(call'.old)
              new == CHOOSE r \in content' : r.file_path = c.file_path
              written_columns ==
                {"name", "content_type", "package_id", "parent_device",
                 "category", "tags", "device_type", "file_size",
                 "modified_at", "indexed_at"}
          IN  /\ old \in content
              /\ new \in content'
              /\ DOMAIN new = DOMAIN old
              /\ \A k \in DOMAIN old \ written_columns : new[k] = old[k]
              /\ \A k \in written_columns \ {"indexed_at"} : new[k] = c[k]
              /\ new.indexed_at = call'.n
              /\ content' \ {new} = content \ {old}
              /\ packages' = packages
              /\ content_seq' = content_seq]_vars

\* an upsert has hit the record of a file whose header has changed since,
\* in a catalog that holds the record of another file
UpsertBesideOtherRecord ==
  /\ call.op = "save_content"
  /\ IsSome(call.ret)
  /\ IsSome(call.old)
  /\ Val(call.old).sample_rate # Val(call.arg).sample_rate
  /\ Val(call.old).duration_ms # Val(call.arg).duration_ms
  /\ Val(call.old).file_size # Val(call.arg).file_size
  /\ Cardinality(content) = 2

\* C30: the step in which index_one ends with an exception (the upsert of
\* save_content raised and was rolled back, or stat() raised before it)
\* leaves both tables as they were, with no record added or changed for
\* that path, and index_one answers False; when the scheduler collects
\* that future the file is counted in errors and not in files.
FailedUpsertRollsBack ==
  [][\A i \in DOMAIN futures :
       /\ (pc = "pool" /\ i \in DOMAIN futures'
             /\ futures[i].st = "running" /\ futures'[i].st = "done"
             /\ futures'[i].outcome = "raised")
            => /\ content' = content
               /\ packages' = packages
               /\ content_seq' = content_seq
               /\ RowsOfIn(content', PathStr(files_to_index[i].path))
                    = RowsOfIn(content, PathStr(files_to_index[i].path))
               /\ ~futures'[i].value
       /\ (pc = "pool" /\ i \in DOMAIN futures'
             /\ futures[i].st = "done" /\ futures'[i].st = "collected"
             /\ futures[i].outcome = "raised")
            => /\ stats'.errors = stats.errors + 1
               /\ stats'.files = stats.files
               /\ pc' = "pool"]_vars

\* a run has returned with the record of one file and an error counted
\* for another, whose upsert raised
FailedUpsertCounted ==
  /\ Returned
  /\ Outcomes("raised") # {}
  /\ Outcomes("indexed") # {}
  /\ Outcomes("skipped") = {}
  /\ stats.errors = Cardinality(Outcomes("raised"))
  /\ Cardinality(content) = Cardinality(Outcomes("indexed"))


=============================================================================
